---- MODULE Spec2Model ----
(***************************************************************************)
(* A model of cava_stock_monitor.py: the paginated catalog fetch, the      *)
(* size-availability classifier, the snapshot store and the change         *)
(* detector, as main() runs them, run after run, against one state.json.   *)
(*                                                                         *)
(* Python values are modelled as follows.  A dict is a function (Python    *)
(* compares dicts without regard to insertion order), a list is a          *)
(* sequence, a missing key or None is the string None.  A product URL is   *)
(* the tuple of the base URL, the path prefix and the handle.              *)
(***************************************************************************)
EXTENDS Integers, Sequences, FiniteSets, TLC

\* ------------------------------------------------------------ bounds

\* Variants per product record drawn for the classifier.
MaxVariants == 2
\* Product records on one catalog page.
MaxPageLen == 2
\* Product records the remote catalog serves in one run, over all its pages.
MaxCatalog == 2

\* ------------------------------------------------------------ values

None == "None"
BASE_URL == "https://cavaathleisure.com"
STATE_FILE == "state.json"
UnknownProduct == "Unknown product"

\* Python truthiness of an optional string: None and "" are falsy.
Truthy(s) == s # None /\ s # ""

\* The size labels of the model in Python's string order ("L" < "M" < "S").
LabelOrder == <<"L", "M", "S">>

Range(s) == {s[k] : k \in DOMAIN s}

SeqsUpTo(S, n) == UNION {[1..k -> S] : k \in 0..n}

\* sorted(set(xs)) of a list of size labels.
RECURSIVE SortedFrom(_, _)
SortedFrom(S, k) ==
  IF k > Len(LabelOrder) THEN <<>>
  ELSE (IF LabelOrder[k] \in S THEN <<LabelOrder[k]>> ELSE <<>>)
       \o SortedFrom(S, k + 1)

SortedSet(xs) == SortedFrom(Range(xs), 1)

\* d[k] = v on a dict.
DictSet(d, k, v) == [x \in (DOMAIN d) \cup {k} |-> IF x = k THEN v ELSE d[x]]

EmptyDict == [x \in {} |-> None]

\* urljoin(BASE_URL, f"/products/{handle}")
ProductUrl(handle) == <<BASE_URL, "products", handle>>

\* ------------------------------------------------------------ classifier

\* v.get("available", True): an absent flag counts as available.
VariantAvailableMissingIsOos(v) == v.available = "true"

VariantAvailable(v) == v.available # "false"

\* v.get("option1") or v.get("title")
VariantSize(v) == IF Truthy(v.option1) THEN v.option1 ELSE v.title

\* The inner loop of build_report_via_products_json over p["variants"].
RECURSIVE ScanVariants(_, _)
ScanVariants(vs, acc) ==
  IF vs = <<>> THEN acc
  ELSE LET v == Head(vs)
           size == VariantSize(v)
           next ==
             IF ~Truthy(size) THEN acc
             ELSE IF VariantAvailable(v)
               THEN [acc EXCEPT !.available_sizes = Append(@, size),
                                !.total_variants_with_size = @ + 1]
               ELSE [acc EXCEPT !.unavailable_sizes = Append(@, size),
                                !.total_variants_with_size = @ + 1]
       IN ScanVariants(Tail(vs), next)

EmptyScan ==
  [available_sizes |-> <<>>, unavailable_sizes |-> <<>>,
   total_variants_with_size |-> 0]

EmptyReport ==
  [partial |-> EmptyDict, full_in_stock |-> EmptyDict, full_oos |-> EmptyDict]

\* One pass of the outer loop: the report after product record p.
ClassifyProduct(report, p) ==
  IF ~Truthy(p.handle) THEN report
  ELSE
    LET scan == ScanVariants(p.variants, EmptyScan)
        unique_available == SortedSet(scan.available_sizes)
        unique_unavailable == SortedSet(scan.unavailable_sizes)
        title == IF p.title = None THEN UnknownProduct ELSE p.title
        url == ProductUrl(p.handle)
    IN IF scan.total_variants_with_size = 0 THEN report
       ELSE IF unique_available # <<>> /\ unique_unavailable # <<>>
         THEN [report EXCEPT !.partial = DictSet(@, url,
                 [title |-> title, available_sizes |-> unique_available,
                  unavailable_sizes |-> unique_unavailable])]
       ELSE IF unique_available # <<>> /\ unique_unavailable = <<>>
         THEN [report EXCEPT !.full_in_stock = DictSet(@, url,
                 [title |-> title, available_sizes |-> unique_available,
                  unavailable_sizes |-> <<>>])]
       ELSE IF unique_unavailable # <<>> /\ unique_available = <<>>
         THEN [report EXCEPT !.full_oos = DictSet(@, url,
                 [title |-> title, available_sizes |-> <<>>,
                  unavailable_sizes |-> unique_unavailable])]
       ELSE report

\* The outer loop over the fetched products, in list order.
RECURSIVE BuildReport(_, _)
BuildReport(ps, report) ==
  IF ps = <<>> THEN report
  ELSE BuildReport(Tail(ps), ClassifyProduct(report, Head(ps)))

Buckets == <<"partial", "full_in_stock", "full_oos">>

\* extract_state_from_report: the buckets are flattened in the fixed order
\* partial, full_in_stock, full_oos, a later bucket overwriting an earlier one.
RECURSIVE ExtractFrom(_, _, _)
ExtractFrom(report, k, state) ==
  IF k > Len(Buckets) THEN state
  ELSE LET status_key == Buckets[k]
           bucket == report[status_key]
           merged == [url \in (DOMAIN state) \cup (DOMAIN bucket) |->
                        IF url \in DOMAIN bucket
                          THEN [status |-> status_key,
                                available |-> bucket[url].available_sizes,
                                unavailable |-> bucket[url].unavailable_sizes]
                          ELSE state[url]]
       IN ExtractFrom(report, k + 1, merged)

ExtractState(report) == ExtractFrom(report, 1, EmptyDict)


\* ------------------------------------------------------------ state store

\* A Python value read back from state.json: a dict, or something else.
PyDict(f) == [t |-> "dict", v |-> f]
PyNone == [t |-> "none", v |-> EmptyDict]

\* What state.json can hold.  kind "json_object" is a JSON object with a
\* "products" member, whose parsed value is in products.
AbsentFile == [kind |-> "absent", products |-> PyNone]

\* json.dump({"products": current_state}): the snapshot's keys are strings and
\* its values strings and lists of strings, which JSON holds as they are.
DumpState(current_state) ==
  [kind |-> "json_object", products |-> PyDict(current_state)]

\* What somebody other than the program can leave in state.json.
ForeignFiles ==
  {[kind |-> k, products |-> PyNone] :
     k \in {"absent", "unreadable", "not_json", "json_array",
            "json_object_without_products", "json_object"}}

\* load_previous_state()
LoadPreviousState(file) ==
  IF file.kind = "absent" THEN PyDict(EmptyDict)              \* os.path.exists
  ELSE IF file.kind \in {"unreadable", "not_json"}
    THEN PyDict(EmptyDict)                                    \* open, json.load raise
  ELSE IF file.kind = "json_array" THEN PyDict(EmptyDict)     \* data.get raises
  ELSE IF file.kind = "json_object_without_products"
    THEN PyDict(EmptyDict)                                    \* the default of get
  ELSE file.products

\* has_changes(prev_state, curr_state)
HasChangesKeysOnly(prev_state, curr_state) ==
  DOMAIN prev_state.v # DOMAIN curr_state

HasChanges(prev_state, curr_state) == prev_state # PyDict(curr_state)

\* ------------------------------------------------------------ catalog

Sizes == {None, "", "S", "M"}
VariantTitles == {None, "L"}
Flags == {"absent", "true", "false"}
Variants == [option1 : Sizes, title : VariantTitles, available : Flags]
Handles == {None, "", "bowl"}
ProductTitles == {None, "Bowl"}

\* The product records the classifier is checked on, one at a time.
Products ==
  [handle : Handles, title : ProductTitles,
   variants : SeqsUpTo(Variants, MaxVariants)]

V(option1, available) ==
  [option1 |-> option1, title |-> "Default Title", available |-> available]

\* The records the remote catalog serves in the runs of main(): three records
\* of the handle bowl as the catalog may hold it at different moments, and one
\* record of another product.
Shelf ==
  { [handle |-> "bowl", title |-> "Bowl",
     variants |-> <<V("S", "true"), V("M", "false")>>],
    [handle |-> "bowl", title |-> "Bowl",
     variants |-> <<V("S", "true"), V("L", "false")>>],
    [handle |-> "bowl", title |-> "Bowl",
     variants |-> <<V("S", "true")>>],
    [handle |-> "wrap", title |-> "Wrap",
     variants |-> <<V("M", "false")>>] }

\* A response to GET /products.json?limit=250&page=n.  kind "neterror": the
\* request raised (connection error, timeout); "not_json": a body that
\* resp.json() cannot parse; "no_products": a JSON object without "products".
Response(kind, status, products) ==
  [kind |-> kind, status |-> status, products |-> products]

Responses ==
  {Response("neterror", 0, <<>>), Response("json", 500, <<>>),
   Response("not_json", 200, <<>>), Response("no_products", 200, <<>>)}
  \cup {Response("json", 200, ps) : ps \in SeqsUpTo(Shelf, MaxPageLen)}

\* requests.get or resp.json raises.
Raises(resp) ==
  resp.kind = "neterror" \/ (resp.status = 200 /\ resp.kind = "not_json")

\* fetch_products_page(page), when it returns.
FetchProductsPage(resp) ==
  IF resp.status # 200 THEN <<>>
  ELSE IF resp.kind = "no_products" THEN <<>>
  ELSE resp.products

\* ------------------------------------------------------------ the runs

VARIABLES
  pc,                    \* where main() is
  ONLY_EMAIL_IF_CHANGES, \* the option, read from the environment at start
  page,                  \* fetch_all_products: the page to request next
  all_products,          \* fetch_all_products: the records fetched so far
  requests,              \* the page numbers requested in this run, in order
  served,                \* the responses to them, in order
  report,                \* main: report
  curr_state,            \* main: curr_state
  prev_state,            \* main: prev_state
  changed,               \* main: changed
  state_file,            \* state.json
  tampered,              \* somebody else wrote state.json since a run saved it
  outcome,               \* how this run ended
  last                   \* the runs so far: the previous run's outcome and
                         \* changed, and the snapshot a run saved last

vars ==
  <<pc, ONLY_EMAIL_IF_CHANGES, page, all_products, requests,
    served, report, curr_state, prev_state, changed, state_file, tampered,
    outcome, last>>

NoRun ==
  [outcome |-> "none", changed |-> FALSE, saved |-> FALSE, state |-> EmptyDict]

\* The outcomes of a run that went past save_current_state.
SavedOutcomes == {"not_sent", "email_sent", "no_credentials", "smtp_error"}

Init ==
  /\ pc = "idle"
  /\ ONLY_EMAIL_IF_CHANGES = TRUE
  /\ page = 1
  /\ all_products = <<>>
  /\ requests = <<>>
  /\ served = <<>>
  /\ report = EmptyReport
  /\ curr_state = EmptyDict
  /\ prev_state = PyNone
  /\ changed = FALSE
  /\ state_file = AbsentFile
  /\ tampered = FALSE
  /\ outcome = "none"
  /\ last = NoRun

\* A run starts: the module is imported (the configuration is read from the
\* environment) and main() is entered.
StartRun ==
  /\ pc = "idle"
  /\ pc' = "fetch"
  /\ ONLY_EMAIL_IF_CHANGES' \in BOOLEAN
  /\ UNCHANGED <<page, all_products, requests, served, report, curr_state,
                 prev_state, changed, state_file, tampered, outcome, last>>

\* The process exits, main() having returned or raised: nothing of the run is
\* left but state.json (and, for the record, how the run went).
EndRun ==
  /\ pc \in {"done", "aborted"}
  /\ pc' = "idle"
  /\ last' = [outcome |-> outcome, changed |-> changed,
               saved |-> last.saved \/ outcome \in SavedOutcomes,
               state |-> IF outcome \in SavedOutcomes THEN curr_state
                         ELSE last.state]
  /\ ONLY_EMAIL_IF_CHANGES' = TRUE
  /\ page' = 1
  /\ all_products' = <<>>
  /\ requests' = <<>>
  /\ served' = <<>>
  /\ report' = EmptyReport
  /\ curr_state' = EmptyDict
  /\ prev_state' = PyNone
  /\ changed' = FALSE
  /\ outcome' = "none"
  /\ UNCHANGED <<state_file, tampered>>

\* One pass of the loop of fetch_all_products: page is requested, and the
\* remote answers.  The remote serves at most MaxCatalog records in a run.
FetchPageNoStop(resp) ==
  IF Raises(resp)
    THEN /\ pc' = "aborted"
         /\ outcome' = "fetch_failed"
         /\ UNCHANGED <<all_products, page>>
  ELSE /\ pc' = IF resp.status # 200 THEN "classify" ELSE "fetch"
       /\ all_products' = all_products \o FetchProductsPage(resp)
       /\ page' = page + 1
       /\ outcome' = outcome

FetchPageStep(resp) ==
  IF Raises(resp)
    THEN /\ pc' = "aborted"
         /\ outcome' = "fetch_failed"
         /\ UNCHANGED <<all_products, page>>
  ELSE IF FetchProductsPage(resp) = <<>>
    THEN /\ pc' = "classify"
         /\ UNCHANGED <<all_products, page, outcome>>
  ELSE /\ pc' = "fetch"
       /\ all_products' = all_products \o FetchProductsPage(resp)
       /\ page' = page + 1
       /\ outcome' = outcome

FetchPage ==
  /\ pc = "fetch"
  /\ \E resp \in Responses :
       /\ Len(all_products) + Len(resp.products) <= MaxCatalog
       /\ requests' = Append(requests, page)
       /\ served' = Append(served, resp)
       /\ FetchPageStep(resp)
  /\ UNCHANGED <<ONLY_EMAIL_IF_CHANGES, report, curr_state,
                 prev_state, changed, state_file, tampered, last>>

\* build_report_via_products_json, after the fetch.
BuildReportStep ==
  /\ pc = "classify"
  /\ report' = BuildReport(all_products, EmptyReport)
  /\ pc' = "extract"
  /\ UNCHANGED <<ONLY_EMAIL_IF_CHANGES, page, all_products,
                 requests, served, curr_state, prev_state, changed, state_file,
                 tampered, outcome, last>>

\* main: curr_state = extract_state_from_report(report)
ExtractStateStep ==
  /\ pc = "extract"
  /\ curr_state' = ExtractState(report)
  /\ pc' = "load"
  /\ UNCHANGED <<ONLY_EMAIL_IF_CHANGES, page, all_products,
                 requests, served, report, prev_state, changed, state_file,
                 tampered, outcome, last>>

\* main: prev_state = load_previous_state().  The fetch's own variables are
\* gone by now; the model forgets them here.
LoadStep ==
  /\ pc = "load"
  /\ prev_state' = LoadPreviousState(state_file)
  /\ pc' = "compare"
  /\ page' = 1
  /\ all_products' = <<>>
  /\ requests' = <<>>
  /\ served' = <<>>
  /\ UNCHANGED <<ONLY_EMAIL_IF_CHANGES, report, curr_state,
                 changed, state_file, tampered, outcome, last>>

\* main: changed = has_changes(prev_state, curr_state)
CompareStep ==
  /\ pc = "compare"
  /\ changed' = HasChanges(prev_state, curr_state)
  /\ pc' = "save"
  /\ UNCHANGED <<ONLY_EMAIL_IF_CHANGES, page, all_products,
                 requests, served, report, curr_state, prev_state, state_file,
                 tampered, outcome, last>>

\* main: save_current_state(curr_state)
SaveStepIfChanged ==
  /\ pc = "save"
  /\ state_file' = IF changed THEN DumpState(curr_state) ELSE state_file
  /\ tampered' = IF changed THEN FALSE ELSE tampered
  /\ pc' = "decide"
  /\ UNCHANGED <<ONLY_EMAIL_IF_CHANGES, page, all_products,
                 requests, served, report, curr_state, prev_state, changed,
                 outcome, last>>

SaveStep ==
  /\ pc = "save"
  /\ state_file' = DumpState(curr_state)
  /\ tampered' = FALSE
  /\ pc' = "decide"
  /\ UNCHANGED <<ONLY_EMAIL_IF_CHANGES, page, all_products,
                 requests, served, report, curr_state, prev_state, changed,
                 outcome, last>>

\* main: if ONLY_EMAIL_IF_CHANGES and not changed: return
SkipsEmailWhenChanged(only, chg) == only /\ chg

SkipsEmail(only, chg) == only /\ ~chg

DecideStep ==
  /\ pc = "decide"
  /\ IF SkipsEmail(ONLY_EMAIL_IF_CHANGES, changed)
       THEN pc' = "done" /\ outcome' = "not_sent"
       ELSE pc' = "send" /\ outcome' = outcome
  /\ UNCHANGED <<ONLY_EMAIL_IF_CHANGES, page, all_products,
                 requests, served, report, curr_state, prev_state, changed,
                 state_file, tampered, last>>

\* send_email: raises when SMTP_USER or SMTP_PASSWORD is not set in the
\* environment; with them, the SMTP session succeeds or raises.
SendStep ==
  /\ pc = "send"
  /\ \E smtp_credentials \in BOOLEAN, smtp_ok \in BOOLEAN :
       IF ~smtp_credentials
         THEN pc' = "aborted" /\ outcome' = "no_credentials"
       ELSE IF smtp_ok
         THEN pc' = "done" /\ outcome' = "email_sent"
       ELSE pc' = "aborted" /\ outcome' = "smtp_error"
  /\ UNCHANGED <<ONLY_EMAIL_IF_CHANGES, page, all_products,
                 requests, served, report, curr_state, prev_state, changed,
                 state_file, tampered, last>>

\* Between two runs somebody else deletes, damages or replaces state.json.
Tamper ==
  /\ pc = "idle"
  /\ \E f \in ForeignFiles : state_file' = f
  /\ tampered' = TRUE
  /\ UNCHANGED <<pc, ONLY_EMAIL_IF_CHANGES, page, all_products,
                 requests, served, report, curr_state, prev_state, changed,
                 outcome, last>>

Next ==
  \/ StartRun
  \/ FetchPage
  \/ BuildReportStep
  \/ ExtractStateStep
  \/ LoadStep
  \/ CompareStep
  \/ SaveStep
  \/ DecideStep
  \/ SendStep
  \/ EndRun
  \/ Tamper

Spec == Init /\ [][Next]_vars

\* The classifier alone, on one product record of any shape.
InitClassifier ==
  /\ pc = "classify"
  /\ ONLY_EMAIL_IF_CHANGES = TRUE
  /\ page = 2
  /\ \E p \in Products :
       /\ all_products = <<p>>
       /\ served = <<Response("json", 200, <<p>>), Response("json", 200, <<>>)>>
  /\ requests = <<1, 2>>
  /\ report = EmptyReport
  /\ curr_state = EmptyDict
  /\ prev_state = PyNone
  /\ changed = FALSE
  /\ state_file = AbsentFile
  /\ tampered = FALSE
  /\ outcome = "none"
  /\ last = NoRun

NextClassifier == BuildReportStep \/ ExtractStateStep

SpecClassifier == InitClassifier /\ [][NextClassifier]_vars


\* ------------------------------------------------------------ properties

Last(q) == q[Len(q)]

RECURSIVE Concat(_)
Concat(qs) == IF qs = <<>> THEN <<>> ELSE Head(qs) \o Concat(Tail(qs))

\* The permutations of 1..n.
Perms(n) == {f \in [1..n -> 1..n] : \A a, b \in 1..n : f[a] = f[b] => a = b}

\* The product lists that are ps with the records, and the variants of each
\* record, in another order.
Reorderings(ps) ==
  LET n == Len(ps)
      VariantOrders ==
        {c \in [1..n -> UNION {Perms(Len(ps[k].variants)) : k \in 1..n}] :
           \A k \in 1..n : c[k] \in Perms(Len(ps[k].variants))}
  IN {[k \in 1..n |->
        [ps[f[k]] EXCEPT
           !.variants = [j \in 1..Len(ps[f[k]].variants) |->
                           ps[f[k]].variants[c[f[k]][j]]]]] :
        f \in Perms(n), c \in VariantOrders}

ReportUrls(r) ==
  DOMAIN r.partial \cup DOMAIN r.full_in_stock \cup DOMAIN r.full_oos

\* build_report_via_products_json has returned, and its input is still known.
Classified == pc \in {"extract", "load"}

\* main() is at or past the decision whether to notify.
Decided ==
  \/ pc \in {"send", "done"}
  \/ pc = "aborted" /\ outcome \in {"no_credentials", "smtp_error"}

\* The run attempts to send the email.
Attempted ==
  pc = "send" \/ outcome \in {"email_sent", "no_credentials", "smtp_error"}

\* The previous snapshot has been read and state.json is as it was read.
Loaded == pc \in {"compare", "save"}

\* C1: whatever list the fetcher returned, every product URL of the Report
\* is in exactly one of the buckets partial, full_in_stock, full_oos.
C1_UrlInExactlyOneBucket ==
  \A url \in ReportUrls(report) :
    Cardinality({k \in DOMAIN Buckets : url \in DOMAIN report[Buckets[k]]}) = 1

C2_Label(v) ==
  IF v.option1 \notin {None, ""} THEN v.option1 ELSE v.title

\* C2: a product record with a handle, by its variants that have a size label
\* (option1, else title), a missing availability flag counting as available,
\* is placed in partial iff some sized variant is available and some is not,
\* in full_in_stock iff all are available, in full_oos iff none is, and is in
\* no bucket and not in the snapshot iff it has no sized variant.
C2_ClassificationLaw ==
  Classified =>
    LET p == all_products[1]
        url == <<BASE_URL, "products", p.handle>>
        sized == {k \in DOMAIN p.variants : C2_Label(p.variants[k]) \notin {None, ""}}
        in_stock == {k \in sized : p.variants[k].available \in {"true", "absent"}}
        sold_out == {k \in sized : p.variants[k].available = "false"}
    IN p.handle \notin {None, ""} =>
         /\ url \in DOMAIN report.partial <=> in_stock # {} /\ sold_out # {}
         /\ url \in DOMAIN report.full_in_stock <=> sized # {} /\ sold_out = {}
         /\ url \in DOMAIN report.full_oos <=> sized # {} /\ in_stock = {}
         /\ url \notin ReportUrls(report) <=> sized = {}
         /\ pc = "load" => (url \notin DOMAIN curr_state <=> sized = {})
         /\ pc = "load" /\ url \in DOMAIN curr_state =>
              /\ Range(curr_state[url].available)
                   = {C2_Label(p.variants[k]) : k \in in_stock}
              /\ Range(curr_state[url].unavailable)
                   = {C2_Label(p.variants[k]) : k \in sold_out}

C2_Witness ==
  /\ pc = "load"
  /\ ReportUrls(report) = DOMAIN report.partial
  /\ DOMAIN curr_state # {}
  /\ \E k \in DOMAIN all_products[1].variants :
       /\ all_products[1].variants[k].option1 \in {None, ""}
       /\ all_products[1].variants[k].available = "absent"

C3_ProductsOf(resp) ==
  IF resp.status = 200 /\ resp.kind = "json" THEN resp.products ELSE <<>>

C3_Stops(resp) == resp.status # 200 \/ C3_ProductsOf(resp) = <<>>

\* C3: the pages are requested in the order 1, 2, 3, ...; the first page whose
\* response is non-200 or holds no product is the last one requested; the
\* fetch returns the products of the pages before it, in page order; and when
\* page 1 is a server error the run goes on with no product, an empty Report
\* and an empty snapshot.
C3_Pagination ==
  /\ Len(served) = Len(requests)
  /\ \A k \in DOMAIN requests : requests[k] = k
  /\ \A k \in DOMAIN served : C3_Stops(served[k]) => k = Len(served)
  /\ pc = "fetch" =>
       /\ page = Len(requests) + 1
       /\ all_products = Concat([k \in DOMAIN served |-> C3_ProductsOf(served[k])])
  /\ pc \in {"classify", "extract", "load"} =>
       /\ served # <<>>
       /\ C3_Stops(Last(served))
       /\ all_products
            = Concat([k \in 1..(Len(served) - 1) |-> C3_ProductsOf(served[k])])
  /\ served # <<>> /\ served[1].kind = "json" /\ served[1].status # 200 =>
       /\ pc \in {"classify", "extract", "load"}
       /\ all_products = <<>>
       /\ pc \in {"extract", "load"} => report = EmptyReport
       /\ pc = "load" => curr_state = EmptyDict

C3_Witness ==
  /\ pc = "classify"
  /\ requests = <<1, 2, 3>>
  /\ Len(all_products) = 2
  /\ served[1].products # served[2].products
  /\ served[3].status = 500

\* C4: a request that raises (connection error, timeout, unparseable body)
\* ends the pagination like an empty page: the products of the earlier pages
\* are kept and the run goes on to the classification.
C4_NetworkFailureNonFatal ==
  served # <<>> /\ Last(served).kind \in {"neterror", "not_json"} =>
    /\ pc \in {"classify", "extract", "load"}
    /\ all_products
         = Concat([k \in 1..(Len(served) - 1) |-> C3_ProductsOf(served[k])])

\* C5: the Report, and the snapshot taken from it, are the same for the
\* fetched list in any order of its records and of each record's variants.
C5_OrderIndependent ==
  Classified =>
    \A qs \in Reorderings(all_products) :
      /\ BuildReport(qs, EmptyReport) = report
      /\ ExtractState(BuildReport(qs, EmptyReport)) = ExtractState(report)

\* C6: the snapshot records for each URL the bucket the URL is in: the URLs
\* of the snapshot with status b are the URLs of bucket b of the Report.
C6_StatusRoundTrip ==
  pc \in {"load", "compare", "save", "decide", "send", "done"} =>
    \A k \in DOMAIN Buckets :
      {url \in DOMAIN curr_state : curr_state[url].status = Buckets[k]}
        = DOMAIN report[Buckets[k]]

\* C7: a run overwrites state.json with its own snapshot, after the previous
\* snapshot was read and compared and before the decision whether to notify;
\* a run that fails in send_email for want of credentials has saved already.
C7_SavedBeforeDecision ==
  /\ Loaded => prev_state = LoadPreviousState(state_file)
  /\ pc = "save" => changed = (prev_state # PyDict(curr_state))
  /\ pc = "decide" \/ Decided =>
       /\ state_file = [kind |-> "json_object", products |-> PyDict(curr_state)]
       /\ changed = (prev_state # PyDict(curr_state))
  /\ outcome = "no_credentials" =>
       /\ pc = "aborted"
       /\ LoadPreviousState(state_file) = PyDict(curr_state)
  /\ pc = "idle" /\ last.outcome \in SavedOutcomes /\ ~tampered =>
       state_file = [kind |-> "json_object", products |-> PyDict(last.state)]

C7_Witness ==
  /\ pc = "aborted"
  /\ outcome = "no_credentials"
  /\ DOMAIN curr_state # {}
  /\ prev_state = PyDict(EmptyDict)
  /\ state_file = DumpState(curr_state)

\* C8: a run attempts to send the email iff the option is off or its snapshot
\* differs from the snapshot the previous run saved (the empty mapping when
\* there is none).
C8_SendIffChanged ==
  /\ Loaded /\ ~tampered =>
       prev_state = PyDict(IF last.saved THEN last.state ELSE EmptyDict)
  /\ Decided =>
       /\ Attempted
            <=> (~ONLY_EMAIL_IF_CHANGES \/ prev_state # PyDict(curr_state))
       /\ prev_state = PyDict(EmptyDict) /\ DOMAIN curr_state # {} => Attempted
       /\ prev_state = PyDict(curr_state) /\ ONLY_EMAIL_IF_CHANGES =>
            pc = "done" /\ outcome = "not_sent"

C8_Witness ==
  /\ pc = "done"
  /\ outcome = "not_sent"
  /\ ONLY_EMAIL_IF_CHANGES
  /\ prev_state = PyDict(last.state)
  /\ last.outcome = "email_sent"
  /\ last.changed
  /\ DOMAIN curr_state # {}
  /\ curr_state = last.state

C9_WellFormed(file) == file.kind = "json_object" /\ file.products.t = "dict"

\* C9: load_previous_state() after save_current_state(s) returns s; and it
\* returns the empty mapping whenever state.json is absent, unreadable or not
\* a well-formed snapshot document.
C9_LoadContract ==
  /\ pc = "decide" => LoadPreviousState(state_file) = PyDict(curr_state)
  /\ pc = "compare" /\ ~C9_WellFormed(state_file) =>
       prev_state = PyDict(EmptyDict)

\* C10: a run that saw a change and failed in send_email has saved its
\* snapshot all the same; the next run, on the same catalog and with the
\* option on, sees no change and sends nothing.
C10_LostNotification ==
  /\ pc = "aborted" /\ outcome \in {"no_credentials", "smtp_error"} =>
       state_file = [kind |-> "json_object", products |-> PyDict(curr_state)]
  /\ (/\ pc = "idle" \/ Loaded
      /\ last.outcome \in {"no_credentials", "smtp_error"}
      /\ ~tampered)
     => /\ LoadPreviousState(state_file) = PyDict(last.state)
        /\ Loaded => prev_state = PyDict(last.state)
  /\ (/\ Decided
      /\ last.outcome \in {"no_credentials", "smtp_error"}
      /\ last.changed
      /\ prev_state = PyDict(last.state)
      /\ curr_state = last.state
      /\ ONLY_EMAIL_IF_CHANGES)
     => /\ ~changed
        /\ pc = "done"
        /\ outcome = "not_sent"

C10_Witness ==
  /\ pc = "done"
  /\ outcome = "not_sent"
  /\ ONLY_EMAIL_IF_CHANGES
  /\ prev_state = PyDict(last.state)
  /\ last.outcome = "smtp_error"
  /\ last.changed
  /\ DOMAIN curr_state # {}
  /\ curr_state = last.state

====
